---- MODULE Spec2Model ----
(***************************************************************************)
(* Customer segmentation pipeline: transaction cleaning, per-customer RFM  *)
(* feature derivation, cluster scoring, message composition and the email  *)
(* dispatch loop.  The repository carries three copies of the pipeline:    *)
(*   "app"     src/app/pipeline.py + src/app/main.py  (the /segment API)    *)
(*   "root"    src/segmentation_email_pipeline.py     (functions only)      *)
(*   "testing" src/testing/segmentation_email_pipeline.py (the CLI main)    *)
(* The variable `variant` says which copy a behaviour runs.  The scaler and *)
(* clustering artifacts are taken as loaded (load_models succeeded); cell   *)
(* values keep their Python kind so that coercions, truth values and       *)
(* string methods act as the code's do.  StockCode and Country are carried *)
(* by the code but read nowhere after the column check, and are left out   *)
(* of the rows.                                                            *)
(***************************************************************************)
EXTENDS Integers, Sequences, FiniteSets, TLC

VARIABLES variant, columns, raw, args, pc, tx, features, snapshot_date,
          scored, idx, sent, outbox, outcome, mail

vars == <<variant, columns, raw, args, pc, tx, features, snapshot_date,
          scored, idx, sent, outbox, outcome, mail>>

(***************************************************************************)
(* Python / pandas cell values.  kind "str" carries a sequence of          *)
(* one-character strings, kind "int" an integer, "nan" is NaN/NaT/<NA>,     *)
(* "none" is None.                                                         *)
(***************************************************************************)
PyStr(chars) == [kind |-> "str", s |-> chars, n |-> 0]
PyInt(v) == [kind |-> "int", s |-> <<>>, n |-> v]
PyNaN == [kind |-> "nan", s |-> <<>>, n |-> 0]
PyNone == [kind |-> "none", s |-> <<>>, n |-> 0]

\* pd.isna / pd.notna on a scalar
IsNA(v) == v.kind \in {"nan", "none"}

\* code points of the characters the model's strings are made of
CharOrd == [c \in {" ", "0", "1", "2", "3", "4", "5", "6", "7", "8", "9", "@",
                   "A", "B", "C", "a", "b", "c", "n", "x"} |->
              CASE c = " " -> 32
                [] c = "0" -> 48 [] c = "1" -> 49 [] c = "2" -> 50 [] c = "3" -> 51
                [] c = "4" -> 52 [] c = "5" -> 53 [] c = "6" -> 54 [] c = "7" -> 55
                [] c = "8" -> 56 [] c = "9" -> 57
                [] c = "@" -> 64
                [] c = "A" -> 65 [] c = "B" -> 66 [] c = "C" -> 67
                [] c = "a" -> 97 [] c = "b" -> 98 [] c = "c" -> 99
                [] c = "n" -> 110 [] c = "x" -> 120]

Digits == {"0", "1", "2", "3", "4", "5", "6", "7", "8", "9"}

\* str < str of Python: lexicographic by code point
RECURSIVE StrLess(_, _)
StrLess(a, b) ==
    IF b = <<>> THEN FALSE
    ELSE IF a = <<>> THEN TRUE
    ELSE IF CharOrd[Head(a)] # CharOrd[Head(b)] THEN CharOrd[Head(a)] < CharOrd[Head(b)]
    ELSE StrLess(Tail(a), Tail(b))

\* str.startswith
StartsWith(chars, prefix) ==
    /\ Len(chars) >= Len(prefix)
    /\ SubSeq(chars, 1, Len(prefix)) = prefix

\* "x" in str
Contains(chars, c) == \E i \in 1..Len(chars) : chars[i] = c

\* str.strip(): leading and trailing whitespace removed
RECURSIVE LStrip(_)
LStrip(chars) ==
    IF chars # <<>> /\ Head(chars) = " " THEN LStrip(Tail(chars)) ELSE chars

RECURSIVE RStrip(_)
RStrip(chars) ==
    IF chars # <<>> /\ chars[Len(chars)] = " "
    THEN RStrip(SubSeq(chars, 1, Len(chars) - 1))
    ELSE chars

Strip(chars) == RStrip(LStrip(chars))

\* decimal text of a non-negative integer below 100, as str(int) prints it
DigitChar == [d \in 0..9 |->
    CASE d = 0 -> "0" [] d = 1 -> "1" [] d = 2 -> "2" [] d = 3 -> "3" [] d = 4 -> "4"
      [] d = 5 -> "5" [] d = 6 -> "6" [] d = 7 -> "7" [] d = 8 -> "8" [] d = 9 -> "9"]

IntText(v) == IF v < 10 THEN <<DigitChar[v]>> ELSE <<DigitChar[v \div 10], DigitChar[v % 10]>>

\* value of a string of decimal digits
RECURSIVE DigitsValue(_)
DigitsValue(chars) ==
    IF chars = <<>> THEN 0
    ELSE 10 * DigitsValue(SubSeq(chars, 1, Len(chars) - 1)) + (CharOrd[chars[Len(chars)]] - 48)

IsDigits(chars) == chars # <<>> /\ \A i \in 1..Len(chars) : chars[i] \in Digits

(***************************************************************************)
(* clean_transactions                                                      *)
(***************************************************************************)
REQUIRED_COLUMNS == {"InvoiceNo", "StockCode", "Description", "Quantity", "InvoiceDate",
                     "UnitPrice", "CustomerID", "Name", "Email", "Country"}

\* Series.astype(str): NaN becomes the text "nan", an integer its decimal text
AsTypeStr(v) ==
    CASE v.kind = "str" -> v
      [] v.kind = "int" -> PyStr(IntText(v.n))
      [] OTHER -> PyStr(<<"n", "a", "n">>)

\* pd.to_numeric(errors="coerce"): a number stays, numeric text is parsed (surrounding
\* blanks ignored, optional sign), anything else becomes NaN
ToNumeric(v) ==
    CASE v.kind = "int" -> v
      [] v.kind = "str" ->
            LET t == Strip(v.s) IN
            IF IsDigits(t) THEN PyInt(DigitsValue(t))
            ELSE IF t # <<>> /\ Head(t) = "-" /\ IsDigits(Tail(t)) THEN PyInt(0 - DigitsValue(Tail(t)))
            ELSE PyNaN
      [] OTHER -> PyNaN

\* pd.to_datetime(errors="coerce"): a timestamp (counted in ticks) stays, the rest is NaT
ToDatetime(v) == IF v.kind = "int" THEN v ELSE PyNaN

\* the dtype conversions of clean_transactions, one row
ConvertRow(r) ==
    [r EXCEPT !.InvoiceNo = AsTypeStr(@),
              !.Description = AsTypeStr(@),
              !.Quantity = ToNumeric(@),
              !.UnitPrice = ToNumeric(@),
              !.CustomerID = ToNumeric(@),
              !.InvoiceDate = ToDatetime(@)]

\* Series > 0: False on NaN
GtZero(v) == v.kind = "int" /\ v.n > 0

\* ~df["InvoiceNo"].str.startswith("C", na=False)
NotCancelled(r) == ~StartsWith(r.InvoiceNo.s, <<"C">>)

\* the positivity filter with the unit price left out
PositiveQuantityOnly(r) == GtZero(r.Quantity)

\* (df["Quantity"] > 0) & (df["UnitPrice"] > 0)
PositiveAmounts(r) == GtZero(r.Quantity) /\ GtZero(r.UnitPrice)

\* dropna(subset=["CustomerID","InvoiceDate","Email"])
NoNulls(r) == ~IsNA(r.CustomerID) /\ ~IsNA(r.InvoiceDate) /\ ~IsNA(r.Email)

WithTotalPrice(r) ==
    [InvoiceNo |-> r.InvoiceNo, Description |-> r.Description, Quantity |-> r.Quantity,
     UnitPrice |-> r.UnitPrice, CustomerID |-> r.CustomerID, InvoiceDate |-> r.InvoiceDate,
     Name |-> r.Name, Email |-> r.Email, TotalPrice |-> r.Quantity.n * r.UnitPrice.n]

\* the returned frame (input order kept); the missing-column check is in the caller step
clean_transactions(df) ==
    LET converted == [i \in 1..Len(df) |-> ConvertRow(df[i])]
        live == SelectSeq(converted, NotCancelled)
        positive == SelectSeq(live, PositiveAmounts)
        complete == SelectSeq(positive, NoNulls)
    IN  [i \in 1..Len(complete) |-> WithTotalPrice(complete[i])]

(***************************************************************************)
(* derive_customer_features                                                *)
(***************************************************************************)
\* length of a day in ticks of the model's clock
TicksPerDay == 2

MaxOf(S) == CHOOSE m \in S : \A x \in S : x <= m

\* the distinct customer ids, as groupby("CustomerID") keys them
Customers(df) == {df[i].CustomerID.n : i \in 1..Len(df)}

RowsOfCustomer(df, c) == {i \in 1..Len(df) : df[i].CustomerID.n = c}

\* df["InvoiceDate"].max() + timedelta(days=1); NaT on an empty frame
SnapshotDate(df) ==
    IF df = <<>> THEN PyNaN
    ELSE PyInt(MaxOf({df[i].InvoiceDate.n : i \in 1..Len(df)}) + TicksPerDay)

\* groupby("CustomerID")["InvoiceDate"].max()
LastPurchase(df, c) == MaxOf({df[i].InvoiceDate.n : i \in RowsOfCustomer(df, c)})

\* recency counted from the latest invoice date itself, the day added for the snapshot lost
RecencyFromLatest(df, c) == (SnapshotDate(df).n - TicksPerDay - LastPurchase(df, c)) \div TicksPerDay

\* (snapshot_date - last_purchase).dt.days: whole days of the difference
RecencyOf(df, c) == (SnapshotDate(df).n - LastPurchase(df, c)) \div TicksPerDay

\* groupby("CustomerID")["InvoiceNo"].nunique()
FrequencyOf(df, c) == Cardinality({df[i].InvoiceNo : i \in RowsOfCustomer(df, c)})

RECURSIVE SumOver(_, _, _)
SumOver(df, rows, field) ==
    IF rows = {} THEN 0
    ELSE LET i == CHOOSE j \in rows : TRUE
         IN  df[i][field] + SumOver(df, rows \ {i}, field)

\* groupby("CustomerID")["TotalPrice"].sum()
MonetaryOf(df, c) == SumOver(df, RowsOfCustomer(df, c), "TotalPrice")

\* rows of one (customer, description) group
RowsOfProduct(df, c, d) == {i \in RowsOfCustomer(df, c) : df[i].Description = d}

RECURSIVE SumQty(_, _)
SumQty(df, rows) ==
    IF rows = {} THEN 0
    ELSE LET i == CHOOSE j \in rows : TRUE
         IN  df[i].Quantity.n + SumQty(df, rows \ {i})

\* one row of groupby(["CustomerID","Description"]).agg(Qty=sum, Rev=sum)
ProdRow(df, c, d) ==
    [CustomerID |-> c, Description |-> d,
     Qty |-> SumQty(df, RowsOfProduct(df, c, d)),
     Rev |-> SumOver(df, RowsOfProduct(df, c, d), "TotalPrice")]

\* groupby key order: customer id ascending, then description ascending
KeyLess(a, b) ==
    \/ a.CustomerID < b.CustomerID
    \/ a.CustomerID = b.CustomerID /\ StrLess(a.Description.s, b.Description.s)

RECURSIVE InKeyOrder(_)
InKeyOrder(S) ==
    IF S = {} THEN <<>>
    ELSE LET m == CHOOSE x \in S : \A y \in S \ {x} : KeyLess(x, y)
         IN  <<m>> \o InKeyOrder(S \ {m})

\* the aggregate after reset_index(), in groupby key order
ProdAggFrame(df) ==
    InKeyOrder({ProdRow(df, df[i].CustomerID.n, df[i].Description) : i \in 1..Len(df)})

\* sort_values(["CustomerID","Qty","Rev"], ascending=[True,False,False]) row comparison
ProdBefore(a, b) ==
    \/ a.CustomerID < b.CustomerID
    \/ a.CustomerID = b.CustomerID /\ a.Qty > b.Qty
    \/ a.CustomerID = b.CustomerID /\ a.Qty = b.Qty /\ a.Rev > b.Rev

\* insert keeping equal rows in their earlier order (the multi-key sort is a stable lexsort)
RECURSIVE InsertProd(_, _)
InsertProd(sorted, r) ==
    IF sorted = <<>> THEN <<r>>
    ELSE IF ProdBefore(r, Head(sorted)) THEN <<r>> \o sorted
    ELSE <<Head(sorted)>> \o InsertProd(Tail(sorted), r)

RECURSIVE SortProd(_)
SortProd(frame) ==
    IF frame = <<>> THEN <<>>
    ELSE InsertProd(SortProd(SubSeq(frame, 1, Len(frame) - 1)), frame[Len(frame)])

\* what the name prod_agg is bound to.  app: the value of sort_values(..., inplace=True),
\* which is None; root and testing: the frame, sorted in place
prod_agg(v, df) ==
    IF v = "app" THEN [isNone |-> TRUE, frame |-> <<>>]
    ELSE [isNone |-> FALSE, frame |-> SortProd(ProdAggFrame(df))]

\* prod_agg.groupby("CustomerID").first()["Description"]: first row of each customer
FavCategory(frame, c) ==
    LET i == CHOOSE j \in 1..Len(frame) :
                 /\ frame[j].CustomerID = c
                 /\ \A k \in 1..(j - 1) : frame[k].CustomerID # c
    IN  frame[i].Description

\* df.sort_values("InvoiceDate").groupby("CustomerID").tail(1): the default sort kind is
\* not stable, so any of a customer's rows carrying its latest timestamp can come last
LatestRows(df, c) ==
    {i \in RowsOfCustomer(df, c) : df[i].InvoiceDate.n = LastPurchase(df, c)}

\* the choices of latest row, one per customer
LatestChoices(df) ==
    {f \in [Customers(df) -> 1..Len(df)] : \A c \in Customers(df) : f[c] \in LatestRows(df, c)}

\* columns of the concatenated and joined frame
FeatureColumns == {"CustomerID", "Name", "Email", "Last_Purchase", "Fav_Category",
                   "Total_Spent", "Last_Purchase_Days_Ago", "Recency", "Frequency", "Monetary"}

\* the list cols of each copy
SelectedColumns(v) ==
    IF v = "root"
    THEN (FeatureColumns \ {"Fav_Category"}) \cup {"Fav_category"}
    ELSE FeatureColumns

\* one row of the merged frame
FeatureRow(df, frame, latest, c) ==
    [CustomerID |-> c,
     Name |-> df[latest[c]].Name,
     Email |-> df[latest[c]].Email,
     Last_Purchase |-> LastPurchase(df, c),
     Fav_Category |-> FavCategory(frame, c),
     Total_Spent |-> MonetaryOf(df, c),
     Last_Purchase_Days_Ago |-> RecencyOf(df, c),
     Recency |-> RecencyOf(df, c),
     Frequency |-> FrequencyOf(df, c),
     Monetary |-> MonetaryOf(df, c)]

\* sort_values("Monetary", ascending=False): the orders a sort that need not be stable
\* can leave the rows in
MonetaryOrders(rowset) ==
    {f \in [1..Cardinality(rowset) -> rowset] :
        /\ \A i, j \in 1..Cardinality(rowset) : i # j => f[i] # f[j]
        /\ \A i \in 1..(Cardinality(rowset) - 1) : f[i].Monetary >= f[i + 1].Monetary}

\* the error derive_customer_features ends in, "" when it returns
DeriveError(v) ==
    IF prod_agg(v, <<>>).isNone THEN "AttributeError"
    ELSE IF ~(SelectedColumns(v) \subseteq FeatureColumns) THEN "KeyError"
    ELSE ""

\* the feature frames derive_customer_features can return for df
derive_customer_features(v, df) ==
    IF df = <<>> THEN {<<>>}
    ELSE UNION {MonetaryOrders({FeatureRow(df, prod_agg(v, df).frame, latest, c) : c \in Customers(df)}) :
                    latest \in LatestChoices(df)}

(***************************************************************************)
(* score_segments                                                          *)
(***************************************************************************)
CLUSTER_MAP == [c \in {0, 1, 2} |->
    CASE c = 0 -> "At-Risk Customers" [] c = 1 -> "Regular Customers" [] c = 2 -> "VIP Customers"]

\* number of clusters the clustering artifact is fitted with
n_clusters == 5

\* the fitted scaler: per-column mean and scale of [Recency, Frequency, Monetary]
SCALER == [mean |-> <<1, 1, 10>>, scale |-> <<1, 1, 10>>]

\* the fitted clustering model: one centre per cluster id 0..n_clusters-1, in scaled units
KMEANS == SubSeq(<<<<1, 0, 2>>, <<0, 0, 0>>, <<0, 1, 5>>, <<0, 3, 0>>, <<1, 0, 5>>>>, 1, n_clusters)

\* squared distance of a row to a centre after scaler.transform, times the squared
\* product of the scales (the common factor keeps the arithmetic in the integers)
ScaledDistance(scaler, rfm, centre) ==
    LET all == scaler.scale[1] * scaler.scale[2] * scaler.scale[3]
        term(j) == LET w == all \div scaler.scale[j]
                       d == (rfm[j] - scaler.mean[j]) - scaler.scale[j] * centre[j]
                   IN  w * w * d * d
    IN  term(1) + term(2) + term(3)

\* kmeans.predict on one row: the nearest centre, the lowest id among equals
Predict(scaler, kmeans, rfm) ==
    CHOOSE k \in 0..(Len(kmeans) - 1) :
        /\ \A j \in 0..(Len(kmeans) - 1) :
              ScaledDistance(scaler, rfm, kmeans[k + 1]) <= ScaledDistance(scaler, rfm, kmeans[j + 1])
        /\ \A j \in 0..(k - 1) :
              ScaledDistance(scaler, rfm, kmeans[j + 1]) > ScaledDistance(scaler, rfm, kmeans[k + 1])

\* out["Cluster"].map(CLUSTER_MAP).fillna("Unknown")
SegmentOf(cluster) == IF cluster \in DOMAIN CLUSTER_MAP THEN CLUSTER_MAP[cluster] ELSE "Unknown"

ScoredRow(f, cluster) ==
    [CustomerID |-> f.CustomerID, Name |-> f.Name, Email |-> f.Email,
     Last_Purchase |-> f.Last_Purchase, Fav_Category |-> f.Fav_Category,
     Total_Spent |-> f.Total_Spent, Last_Purchase_Days_Ago |-> f.Last_Purchase_Days_Ago,
     Recency |-> f.Recency, Frequency |-> f.Frequency, Monetary |-> f.Monetary,
     Cluster |-> cluster, Segment |-> SegmentOf(cluster)]

\* the predictions attached to the rows in the opposite order
ScoreReversed(feats, scaler, kmeans) ==
    [i \in 1..Len(feats) |->
        ScoredRow(feats[i],
                  Predict(scaler, kmeans, <<feats[Len(feats) + 1 - i].Recency,
                                            feats[Len(feats) + 1 - i].Frequency,
                                            feats[Len(feats) + 1 - i].Monetary>>))]

score_segments(feats, scaler, kmeans) ==
    [i \in 1..Len(feats) |->
        ScoredRow(feats[i],
                  Predict(scaler, kmeans, <<feats[i].Recency, feats[i].Frequency, feats[i].Monetary>>))]

(***************************************************************************)
(* generate_email                                                          *)
(***************************************************************************)
THERE == <<"t", "h", "e", "r", "e">>
YOUR_FAVORITES == <<"y", "o", "u", "r", " ", "f", "a", "v", "o", "r", "i", "t", "e", "s">>
YOUR_FAVOURITES == <<"Y", "o", "u", "r", " ", "f", "a", "v", "o", "u", "r", "i", "t", "e", "s">>

\* truth value of a Python object: None, "" and 0 are false, NaN is true
Truthy(v) ==
    CASE v.kind = "none" -> FALSE
      [] v.kind = "str" -> v.s # <<>>
      [] v.kind = "int" -> v.n # 0
      [] OTHER -> TRUE

\* (x or default).strip() or fallback, of the app copy: the error or the text
OrStripOr(x, default, fallback) ==
    LET first == IF Truthy(x) THEN x ELSE PyStr(default) IN
    IF first.kind # "str" THEN [error |-> "AttributeError", text |-> <<>>]
    ELSE [error |-> "", text |-> IF Strip(first.s) # <<>> THEN Strip(first.s) ELSE fallback]

\* the name the testing copy greets: "there" when pd.isna(name) or str(name) is blank
NameText(name) ==
    IF IsNA(name) THEN THERE
    ELSE IF name.kind = "str" THEN (IF Strip(name.s) = <<>> THEN THERE ELSE name.s)
    ELSE IntText(name.n)

\* fav_text of the testing copy
FavText(fav) ==
    IF fav.kind = "str" /\ Strip(fav.s) # <<>> THEN fav.s ELSE YOUR_FAVORITES

\* the template a segment selects
TemplateOf(segment) ==
    CASE segment = "VIP Customers" -> "VIP"
      [] segment = "Regular Customers" -> "Regular"
      [] OTHER -> "AtRisk"

\* rendering of the days in the At-Risk/Unknown body: the error or the integer.
\* app: days = int(d) if pd.notna(d) else "many", then int(days); testing: int(d)
DaysText(v, days) ==
    IF days.kind = "int" THEN [error |-> "", n |-> days.n]
    ELSE IF v = "app" THEN [error |-> "ValueError", n |-> 0]
    ELSE IF days.kind = "none" THEN [error |-> "TypeError", n |-> 0]
    ELSE [error |-> "ValueError", n |-> 0]

\* a composed message: the template and what fills its slots (days only in At-Risk)
Message(template, name, fav, days) ==
    [error |-> "", template |-> template, name |-> name, fav |-> fav,
     days |-> IF template = "AtRisk" THEN days ELSE 0]

Failed(error) == [error |-> error, template |-> "", name |-> <<>>, fav |-> <<>>, days |-> 0]

generate_email(v, name, segment, last_purchase_days, fav_category) ==
    LET nm == IF v = "app" THEN OrStripOr(name, THERE, THERE)
              ELSE [error |-> "", text |-> NameText(name)]
        fv == IF v = "app" THEN OrStripOr(fav_category, YOUR_FAVOURITES, YOUR_FAVORITES)
              ELSE [error |-> "", text |-> FavText(fav_category)]
        dy == DaysText(v, last_purchase_days)
    IN  IF nm.error # "" THEN Failed(nm.error)
        ELSE IF fv.error # "" THEN Failed(fv.error)
        ELSE IF TemplateOf(segment) = "AtRisk" /\ dy.error # "" THEN Failed(dy.error)
        ELSE Message(TemplateOf(segment), nm.text, fv.text, dy.n)

(***************************************************************************)
(* The runs: the /segment handler (app), the CLI main (testing) and a call *)
(* of the two functions the root copy defines (root).                      *)
(***************************************************************************)
Variants == {"app", "root", "testing"}

\* rows a transaction table holds at most, per family of inputs
MaxCleanRows == 2
MaxRows == 3
MaxRecipients == 3

Row(inv, desc, qty, price, cust, date, name, email) ==
    [InvoiceNo |-> inv, Description |-> desc, Quantity |-> qty, UnitPrice |-> price,
     CustomerID |-> cust, InvoiceDate |-> date, Name |-> name, Email |-> email]

AnnName == PyStr(<<"A", "n", "n">>)
AnnMail == PyStr(<<"a", "@", "b">>)
Mug == PyStr(<<"A">>)
Pen == PyStr(<<"B">>)

\* raw rows that differ in what the filters of clean_transactions look at
CleanRows ==
    {Row(inv, Mug, qty, price, PyInt(1), PyInt(0), AnnName, AnnMail) :
        inv \in {PyStr(<<"C", "1">>), PyStr(<<"2">>)},
        qty \in {PyStr(<<"x">>), PyInt(0), PyStr(<<"3">>)},
        price \in {PyNaN, PyInt(0), PyInt(10)}}
    \cup
    {Row(inv, Mug, PyInt(3), PyInt(10), cust, date, AnnName, email) :
        inv \in {PyNaN, PyStr(<<"c", "2">>)},
        cust \in {PyNaN, PyInt(1)},
        date \in {PyStr(<<"x">>), PyInt(0)},
        email \in {PyNaN, AnnMail}}

\* rows that differ in description, quantity and price, for the favourite category
FavRows ==
    {Row(PyStr(<<"2">>), desc, PyInt(qty), PyInt(price), PyInt(cust), PyInt(0), AnnName, AnnMail) :
        desc \in {Mug, Pen}, qty \in {1, 2}, price \in {1, 2}, cust \in {1, 2}}

\* rows that differ in invoice and customer, on two days, for frequency
FreqRows ==
    {Row(inv, Mug, PyInt(3), PyInt(10), PyInt(cust), PyInt(date), AnnName, AnnMail) :
        inv \in {PyStr(<<"C", "1">>), PyInt(2), PyInt(3)}, cust \in {1, 2},
        date \in {0, TicksPerDay}}

\* rows that differ in customer and timestamp, for recency
RecencyRows ==
    {Row(PyInt(2), Mug, PyInt(3), PyInt(10), PyInt(cust), PyInt(date), AnnName, AnnMail) :
        cust \in {1, 2}, date \in 0..(2 * TicksPerDay - 1)}

BobName == PyStr(<<"B", "o", "b">>)
BobMail == PyStr(<<"b", "@", "b">>)

\* rows that differ in customer, timestamp and contact pair, for the latest name and email
ContactRows ==
    {Row(PyInt(2), Mug, PyInt(1), PyInt(1), PyInt(cust), PyInt(date), contact[1], contact[2]) :
        cust \in {1, 2}, date \in {0, 1},
        contact \in {<<AnnName, AnnMail>>, <<BobName, BobMail>>}}

\* tables of one row per customer that differ in email and amount, for the dispatch loop
DispatchTables ==
    UNION {{[i \in 1..k |-> Row(PyStr(<<"2">>), Mug, PyInt(1), PyInt(f[i][2]), PyInt(i), PyInt(0),
                               AnnName, f[i][1])] :
               f \in [1..k -> {AnnMail, PyStr(<<"a", "b">>), PyStr(<<" ">>)} \X {1, 2}]} :
           k \in 0..MaxRecipients}

Tables(rows, n) == UNION {[1..k -> rows] : k \in 0..n}

\* what the caller asks for: dispatch or not (send_emails / not --dry-run), the cap
\* (limit), and whether EMAIL_USER and EMAIL_PASS are configured
Request(send, limit, creds) == [send |-> send, limit |-> limit, creds |-> creds]

DryRun == Request(FALSE, PyNone, TRUE)

Requests ==
    {Request(TRUE, limit, TRUE) : limit \in {PyNone, PyInt(0), PyInt(1), PyInt(2)}}
    \cup {Request(TRUE, PyNone, FALSE)}

Running == [status |-> "running", error |-> "", by |-> ""]
Raised(error, by) == [status |-> "error", error |-> error, by |-> by]
Returned == [status |-> "ok", error |-> "", by |-> ""]

NoMail == [called |-> FALSE, name |-> PyNone, segment |-> "", days |-> PyNone,
           fav |-> PyNone, result |-> Failed("")]

Init ==
    /\ variant \in Variants
    /\ \/ /\ columns = REQUIRED_COLUMNS
          /\ raw \in Tables(CleanRows, MaxCleanRows) \cup Tables(FavRows, MaxRows)
                        \cup Tables(FreqRows, MaxRows) \cup Tables(RecencyRows, MaxRows)
                        \cup Tables(ContactRows, MaxRows)
          /\ args = DryRun
       \/ /\ columns = REQUIRED_COLUMNS
          /\ raw \in DispatchTables
          /\ args \in Requests
       \/ /\ columns = REQUIRED_COLUMNS \ {"Country"}
          /\ raw = <<>>
          /\ args = DryRun
    /\ pc = "clean"
    /\ tx = <<>>
    /\ features = <<>>
    /\ snapshot_date = PyNone
    /\ scored = <<>>
    /\ idx = 1
    /\ sent = 0
    /\ outbox = <<>>
    /\ outcome = Running
    /\ mail = NoMail

\* handler start through clean_transactions.  testing: main first refuses to run without
\* credentials unless --dry-run
Clean ==
    /\ pc = "clean"
    /\ IF variant = "testing" /\ args.send /\ ~args.creds
       THEN /\ outcome' = Raised("RuntimeError", "main")
            /\ pc' = "done"
            /\ tx' = tx
       ELSE IF REQUIRED_COLUMNS \ columns # {}
       THEN /\ outcome' = Raised("ValueError: Missing required columns", "clean_transactions")
            /\ pc' = "done"
            /\ tx' = tx
       ELSE /\ tx' = clean_transactions(raw)
            /\ pc' = "derive"
            /\ outcome' = outcome
    /\ UNCHANGED <<variant, columns, raw, args, features, snapshot_date, scored, idx, sent,
                   outbox, mail>>

\* the aggregation step.  testing: main raises on an empty cleaned frame before it calls
\* derive_customer_features; app and root call it at once
Aggregate ==
    /\ pc = "derive"
    /\ IF variant = "testing" /\ tx = <<>>
       THEN /\ outcome' = Raised("ValueError: No valid transactions", "main")
            /\ pc' = "done"
            /\ UNCHANGED <<features, snapshot_date>>
       ELSE IF DeriveError(variant) # ""
       THEN /\ outcome' = Raised(DeriveError(variant), "derive_customer_features")
            /\ pc' = "done"
            /\ UNCHANGED <<features, snapshot_date>>
       ELSE /\ features' \in derive_customer_features(variant, tx)
            /\ snapshot_date' = SnapshotDate(tx)
            /\ pc' = IF variant = "root" THEN "return" ELSE "score"
            /\ outcome' = outcome
    /\ UNCHANGED <<variant, columns, raw, args, tx, scored, idx, sent, outbox, mail>>

\* score_segments, then the gate of the dispatch loop.  The scaler refuses an empty
\* frame; app answers 400 when asked to send without credentials
Score ==
    /\ pc = "score"
    /\ IF features = <<>>
       THEN /\ outcome' = Raised("ValueError", "score_segments")
            /\ pc' = "done"
            /\ scored' = scored
       ELSE /\ scored' = score_segments(features, SCALER, KMEANS)
            /\ IF ~args.send THEN pc' = "return" /\ outcome' = outcome
               ELSE IF variant = "app" /\ ~args.creds
               THEN pc' = "done" /\ outcome' = Raised("400", "segment_customers")
               ELSE pc' = "loop" /\ outcome' = outcome
    /\ UNCHANGED <<variant, columns, raw, args, tx, features, snapshot_date, idx, sent,
                   outbox, mail>>

\* the email the loop tests and sends to: app takes the cell, testing str(cell).strip()
EmailText(v, email) == IF v = "testing" THEN Strip(AsTypeStr(email).s) ELSE email.s

\* not email or "@" not in email
SkipEmail(chars) == chars = <<>> \/ ~Contains(chars, "@")

\* if limit and sent >= limit
CapReached(limit, count) == Truthy(limit) /\ count >= limit.n

\* the sent counter after one call of the mail sink
SentAfter(count, ok) == IF ok THEN count + 1 ELSE count

\* the call of the mail sink with no except clause around it: a failure escapes
HandleSendUncaught(ok) == IF ok THEN "sent" ELSE "raised"

\* try: send_email_gmail(...) / except Exception: print(...).  What the loop sees of one
\* call of the mail sink: "sent" when it delivered, "caught" when it raised and the
\* except clause swallowed the exception ("raised" would be an exception that escapes)
HandleSend(ok) == IF ok THEN "sent" ELSE "caught"

\* one iteration of the dispatch loop over the scored rows; ok is whether the mail sink
\* delivers or raises
DispatchRow ==
    /\ pc = "loop"
    /\ idx <= Len(scored)
    /\ LET r == scored[idx]
           email == EmailText(variant, r.Email)
           msg == generate_email(variant, r.Name, r.Segment, PyInt(r.Last_Purchase_Days_Ago),
                                 r.Fav_Category)
           last == idx = Len(scored)
       IN  IF SkipEmail(email)
           THEN /\ idx' = idx + 1
                /\ pc' = IF last THEN "return" ELSE "loop"
                /\ UNCHANGED <<sent, outbox, outcome>>
           ELSE IF msg.error # ""
           THEN /\ outcome' = Raised(msg.error, "generate_email")
                /\ pc' = "done"
                /\ UNCHANGED <<idx, sent, outbox>>
           ELSE \E ok \in BOOLEAN :
                /\ outbox' = Append(outbox, [row |-> idx, to |-> email, message |-> msg, ok |-> ok])
                /\ sent' = SentAfter(sent, HandleSend(ok) = "sent")
                /\ idx' = idx + 1
                /\ pc' = IF HandleSend(ok) = "raised" THEN "done"
                         ELSE IF HandleSend(ok) = "sent" /\ CapReached(args.limit, sent') THEN "return"
                         ELSE IF last THEN "return" ELSE "loop"
                /\ outcome' = IF HandleSend(ok) = "raised"
                              THEN Raised("Exception", "send_email_gmail")
                              ELSE outcome
    /\ UNCHANGED <<variant, columns, raw, args, tx, features, snapshot_date, scored, mail>>

\* the normal end: the result is written and returned
Return ==
    /\ pc = "return"
    /\ pc' = "done"
    /\ outcome' = Returned
    /\ UNCHANGED <<variant, columns, raw, args, tx, features, snapshot_date, scored, idx,
                   sent, outbox, mail>>

Next == Clean \/ Aggregate \/ Score \/ DispatchRow \/ Return

Spec == Init /\ [][Next]_vars

(***************************************************************************)
(* generate_email called on its own, on every combination of arguments     *)
(***************************************************************************)
MailNames == {AnnName, PyStr(<<" ", "A", " ">>), PyStr(<<" ">>), PyStr(<<>>), PyNone, PyNaN}
MailFavs == {Mug, PyStr(<<" ", "B">>), PyStr(<<" ">>), PyStr(<<>>), PyNone, PyNaN}
MailDays == {PyInt(1), PyInt(30), PyNone, PyNaN}
MailSegments == {"At-Risk Customers", "Regular Customers", "VIP Customers", "Unknown"}

InitEmail ==
    /\ variant \in {"app", "testing"}
    /\ mail \in {[called |-> FALSE, name |-> nm, segment |-> sg, days |-> dy, fav |-> fv,
                  result |-> Failed("")] :
                    nm \in MailNames, sg \in MailSegments, dy \in MailDays, fv \in MailFavs}
    /\ columns = REQUIRED_COLUMNS
    /\ raw = <<>>
    /\ args = DryRun
    /\ pc = "compose"
    /\ tx = <<>>
    /\ features = <<>>
    /\ snapshot_date = PyNone
    /\ scored = <<>>
    /\ idx = 1
    /\ sent = 0
    /\ outbox = <<>>
    /\ outcome = Running

Compose ==
    /\ pc = "compose"
    /\ mail' = [mail EXCEPT !.called = TRUE,
                            !.result = generate_email(variant, mail.name, mail.segment,
                                                      mail.days, mail.fav)]
    /\ pc' = "done"
    /\ outcome' = IF mail'.result.error = "" THEN Returned
                  ELSE Raised(mail'.result.error, "generate_email")
    /\ UNCHANGED <<variant, columns, raw, args, tx, features, snapshot_date, scored, idx,
                   sent, outbox>>

NextEmail == Compose

SpecEmail == InitEmail /\ [][NextEmail]_vars

(***************************************************************************)
(* Properties                                                              *)
(***************************************************************************)
\* clean_transactions has returned a frame (no missing column, no refusal before it)
Cleaned ==
    /\ pc # "clean"
    /\ outcome.by # "clean_transactions"
    /\ outcome.error # "RuntimeError"

\* the raw cell is a number or the text of one
NumericCell(v) ==
    \/ v.kind = "int"
    \/ /\ v.kind = "str"
       /\ LET t == Strip(v.s) IN IsDigits(t) \/ (t # <<>> /\ Head(t) = "-" /\ IsDigits(Tail(t)))

\* a cleaned row without its line total
SourceOf(r) ==
    [InvoiceNo |-> r.InvoiceNo, Description |-> r.Description, Quantity |-> r.Quantity,
     UnitPrice |-> r.UnitPrice, CustomerID |-> r.CustomerID, InvoiceDate |-> r.InvoiceDate,
     Name |-> r.Name, Email |-> r.Email]

\* C1: every row clean_transactions returns has quantity > 0, unit price > 0, an invoice
\* id that does not start with "C", and a customer id, invoice timestamp and email that
\* are not null; no row whose quantity or unit price failed numeric coercion survives.
C1_CleanedRowsValid ==
    Cleaned =>
        /\ \A i \in 1..Len(tx) :
              /\ tx[i].Quantity.kind = "int" /\ tx[i].Quantity.n > 0
              /\ tx[i].UnitPrice.kind = "int" /\ tx[i].UnitPrice.n > 0
              /\ tx[i].InvoiceNo.kind = "str"
              /\ (tx[i].InvoiceNo.s = <<>> \/ Head(tx[i].InvoiceNo.s) # "C")
              /\ tx[i].CustomerID.kind = "int"
              /\ tx[i].InvoiceDate.kind = "int"
              /\ tx[i].Email.kind \notin {"nan", "none"}
        /\ \A j \in 1..Len(raw) :
              (~NumericCell(raw[j].Quantity) \/ ~NumericCell(raw[j].UnitPrice)) =>
                  \A i \in 1..Len(tx) : SourceOf(tx[i]) # ConvertRow(raw[j])

\* a table with a cancelled or uncoercible row next to a row that survives
C1_Witness ==
    /\ Cleaned
    /\ Len(raw) = 2
    /\ Len(tx) = 1
    /\ \E j \in 1..2 : ~NumericCell(raw[j].Quantity) \/ raw[j].InvoiceNo = PyStr(<<"C", "1">>)

\* summed quantity and summed line total of one description of one customer
QtyOf(df, c, d) == SumQty(df, {i \in 1..Len(df) : df[i].CustomerID.n = c /\ df[i].Description = d})
RevOf(df, c, d) ==
    SumOver(df, {i \in 1..Len(df) : df[i].CustomerID.n = c /\ df[i].Description = d}, "TotalPrice")

\* d wins over e for customer c: more quantity; then more revenue; then earlier in the
\* order of the per-(customer, description) aggregate, which is by description
WinsOver(df, c, d, e) ==
    \/ QtyOf(df, c, d) > QtyOf(df, c, e)
    \/ QtyOf(df, c, d) = QtyOf(df, c, e) /\ RevOf(df, c, d) > RevOf(df, c, e)
    \/ /\ QtyOf(df, c, d) = QtyOf(df, c, e)
       /\ RevOf(df, c, d) = RevOf(df, c, e)
       /\ StrLess(d.s, e.s)

\* the aggregation step is over (it returned or it raised)
Aggregated == Cleaned /\ pc # "derive" /\ pc # "compose"

\* C2: on a non-empty cleaned set derive_customer_features completes and gives every
\* customer exactly one favorite category: the description with the highest summed
\* quantity, ties by the highest summed line total, then the first in the stable order.
C2_FavoriteCategory ==
    (Aggregated /\ tx # <<>>) =>
        /\ outcome.by # "derive_customer_features"
        /\ \A c \in Customers(tx) :
              /\ Cardinality({i \in 1..Len(features) : features[i].CustomerID = c}) = 1
              /\ \A i \in 1..Len(features) : features[i].CustomerID = c =>
                    \A k \in 1..Len(tx) :
                        (tx[k].CustomerID.n = c /\ tx[k].Description # features[i].Fav_Category)
                            => WinsOver(tx, c, features[i].Fav_Category, tx[k].Description)

\* C3: a run whose cleaned set has zero rows ends in the empty-input error raised by the
\* aggregation step, without reaching scoring and without a successful result.
C3_EmptyInputError ==
    (Cleaned /\ tx = <<>> /\ variant \in {"app", "testing"}) =>
        /\ pc \in {"derive", "done"}
        /\ pc = "done" =>
              /\ outcome.error = "ValueError: No valid transactions"
              /\ outcome.by = "derive_customer_features"

\* the dispatch loop has been entered
Dispatching ==
    /\ pc \in {"loop", "return", "done"}
    /\ args.send
    /\ scored # <<>>
    /\ outcome.error # "400"

\* the row carries an email with an "@" in it
HasValidEmail(r) == r.Email.kind = "str" /\ \E i \in 1..Len(r.Email.s) : r.Email.s[i] = "@"

\* indices of the rows 1..n of the scored frame that carry a valid email, in row order
RECURSIVE ValidIndices(_)
ValidIndices(n) ==
    IF n = 0 THEN <<>>
    ELSE ValidIndices(n - 1) \o (IF HasValidEmail(scored[n]) THEN <<n>> ELSE <<>>)

\* the rows the mail sink was called for, in call order
AttemptedRows == [k \in 1..Len(outbox) |-> outbox[k].row]

\* number of calls of the mail sink that delivered
Delivered == Cardinality({k \in 1..Len(outbox) : outbox[k].ok})

\* C4: a send that fails never aborts the batch: every valid-email row before the loop's
\* position has been attempted, in row order, whatever failed before it; the loop stops
\* before the last row only at the cap; and the invocation ends in its normal result.
C4_FailureDoesNotAbort ==
    Dispatching =>
        /\ AttemptedRows = ValidIndices(idx - 1)
        /\ (pc # "loop" /\ idx <= Len(scored)) =>
              (args.limit.kind = "int" /\ args.limit.n >= 1 /\ Delivered >= args.limit.n)
        /\ pc = "done" => outcome = Returned

\* a finished run in which a send failed and a later row was still attempted
C4_Witness ==
    /\ Dispatching
    /\ pc = "done"
    /\ outcome = Returned
    /\ \E k \in 1..(Len(outbox) - 1) : ~outbox[k].ok /\ outbox[k + 1].row > outbox[k].row

\* C5: with a cap L >= 1 the loop calls the mail sink at most L times, whatever succeeds
\* or fails, and stops iterating once L calls are made.
C5_CapBoundsAttempts ==
    (args.limit.kind = "int" /\ args.limit.n >= 1) =>
        /\ Len(outbox) <= args.limit.n
        /\ Len(outbox) = args.limit.n => pc # "loop"

\* C6: with a cap L >= 1 and at least L valid-email rows, the rows sent to are exactly the
\* first L valid-email rows of the scored frame, in row order.
C6_FirstValidRows ==
    (/\ Dispatching
     /\ pc = "done"
     /\ args.limit.kind = "int"
     /\ args.limit.n >= 1
     /\ Len(ValidIndices(Len(scored))) >= args.limit.n) =>
        AttemptedRows = SubSeq(ValidIndices(Len(scored)), 1, args.limit.n)

\* missing (None, NaN) or blank (empty or whitespace only)
MissingOrBlank(v) ==
    \/ v.kind \in {"none", "nan"}
    \/ v.kind = "str" /\ \A i \in 1..Len(v.s) : v.s[i] = " "

\* C7: generate_email returns a (subject, body) pair, without raising, for every
\* combination of name, segment, days since last purchase and favorite category.
C7_NeverFails == mail.called => mail.result.error = ""

\* C8: every message renders a missing or blank name as "there" and a missing or blank
\* favorite category as "your favorites", and otherwise the supplied values (compared
\* without surrounding blanks).
C8_Fallbacks ==
    (mail.called /\ mail.result.error = "") =>
        /\ IF MissingOrBlank(mail.name) THEN mail.result.name = THERE
           ELSE Strip(mail.result.name) = Strip(mail.name.s)
        /\ IF MissingOrBlank(mail.fav) THEN mail.result.fav = YOUR_FAVORITES
           ELSE Strip(mail.result.fav) = Strip(mail.fav.s)

\* the table of the scenario: cancelled invoice "C1", then a valid one of 3 at 10, a day later
CancelledThenValid ==
    <<Row(PyStr(<<"C", "1">>), Mug, PyInt(3), PyInt(10), PyInt(1), PyInt(0), AnnName, AnnMail),
      Row(PyInt(2), Mug, PyInt(3), PyInt(10), PyInt(1), PyInt(TicksPerDay), AnnName, AnnMail)>>

\* C9: cleaning then deriving gives exactly one feature row per customer with a surviving
\* row, whose frequency is the number of distinct invoice ids among the customer's
\* surviving rows (>= 1); a cancelled invoice next to a valid one of 3 at 10 gives one row
\* of frequency 1 and monetary 30.
C9_OneRowPerCustomer ==
    Aggregated =>
        /\ Len(features) = Cardinality(Customers(tx))
        /\ \A c \in Customers(tx) :
              \E i \in 1..Len(features) :
                  /\ features[i].CustomerID = c
                  /\ features[i].Frequency >= 1
                  /\ features[i].Frequency =
                        Cardinality({tx[k].InvoiceNo : k \in {j \in 1..Len(tx) : tx[j].CustomerID.n = c}})
        /\ raw = CancelledThenValid =>
              /\ Len(features) = 1
              /\ features[1].Frequency = 1
              /\ features[1].Monetary = 30

\* C10: in every feature row Recency equals Last_Purchase_Days_Ago, both are the whole
\* days between the snapshot date (the cleaned set's latest invoice date plus one day) and
\* the customer's latest invoice date, an integer >= 0, and Monetary equals Total_Spent.
C10_RecencyFromSnapshot ==
    \A i \in 1..Len(features) :
        LET f == features[i]
            mine == {tx[k].InvoiceDate.n : k \in {j \in 1..Len(tx) : tx[j].CustomerID.n = f.CustomerID}}
            every == {tx[k].InvoiceDate.n : k \in 1..Len(tx)}
        IN  /\ f.Recency = f.Last_Purchase_Days_Ago
            /\ f.Recency >= 0
            /\ f.Monetary = f.Total_Spent
            /\ snapshot_date.kind = "int"
            /\ \E top \in every :
                  /\ \A d \in every : d <= top
                  /\ snapshot_date.n = top + TicksPerDay
            /\ \E last \in mine :
                  /\ \A d \in mine : d <= last
                  /\ f.Recency * TicksPerDay <= snapshot_date.n - last
                  /\ snapshot_date.n - last < (f.Recency + 1) * TicksPerDay

\* a customer whose latest purchase lies one day and a part of a day before the latest
\* purchase of the set
C10_Witness ==
    \E i \in 1..Len(features) :
        /\ features[i].Recency = 2
        /\ (snapshot_date.n - features[i].Last_Purchase) % TicksPerDay # 0

\* the last row, in input order, among the rows of customer c that carry its latest
\* invoice timestamp
LastOfLatest(df, c) ==
    LET mine == {k \in 1..Len(df) : df[k].CustomerID.n = c}
        latest == {k \in mine : \A j \in mine : df[j].InvoiceDate.n <= df[k].InvoiceDate.n}
    IN  CHOOSE k \in latest : \A j \in latest : j <= k

CustomerFields ==
    {"CustomerID", "Name", "Email", "Last_Purchase", "Fav_Category", "Total_Spent",
     "Last_Purchase_Days_Ago", "Recency", "Frequency", "Monetary"}

\* the segmentation has run on at least one feature row
Segmented == scored # <<>>

\* C12: score_segments preserves row order and applies a static lookup: output row i
\* carries the customer fields of feature row i, its Cluster is the id predicted for that
\* row's [Recency, Frequency, Monetary], and its Segment is "At-Risk Customers" for 0,
\* "Regular Customers" for 1, "VIP Customers" for 2 and "Unknown" for any other id.
C12_ScoreRowwise ==
    Segmented =>
        /\ Len(scored) = Len(features)
        /\ \A i \in 1..Len(scored) :
              /\ \A f \in CustomerFields : scored[i][f] = features[i][f]
              /\ scored[i].Cluster =
                    Predict(SCALER, KMEANS,
                            <<features[i].Recency, features[i].Frequency, features[i].Monetary>>)
              /\ scored[i].Segment =
                    CASE scored[i].Cluster = 0 -> "At-Risk Customers"
                      [] scored[i].Cluster = 1 -> "Regular Customers"
                      [] scored[i].Cluster = 2 -> "VIP Customers"
                      [] OTHER -> "Unknown"

\* two scored rows in different clusters, one of them outside the lookup table
C12_Witness ==
    /\ Segmented
    /\ \E i, j \in 1..Len(scored) :
          /\ scored[i].Cluster \in {0, 1, 2}
          /\ scored[i].Segment = CLUSTER_MAP[scored[i].Cluster]
          /\ scored[j].Cluster \notin {0, 1, 2}
          /\ scored[j].Segment = "Unknown"

\* C13: when dispatch is requested with a supplied cap of 0, iteration stops at the cap:
\* no send attempt is made for any recipient in that invocation.
C13_ZeroCapSendsNothing ==
    (args.send /\ args.limit = PyInt(0)) => outbox = <<>>

====
